---- MODULE Spec2Model ----
(***************************************************************************)
(* Model of FINE/spagat/RE_representation.py: represent_RE_technology and  *)
(* its two per-region aggregators, _simply_aggregate_RE_technology and      *)
(* _cluster_RE_technology, run as one dask task per region and merged with  *)
(* xr.merge.                                                                *)
(*                                                                          *)
(* Numbers are exact rationals <<numerator, denominator>> in lowest terms;  *)
(* NaN is <<0, 0>> and +inf is <<1, 0>>.                                    *)
(***************************************************************************)
EXTENDS Integers, Sequences, FiniteSets

\* ---------------------------------------------------------------- bounds
NRegions == 2
NCells == 4
NTimes == 2
NTimeSeries == 2    \* the time series per region a call in cluster mode asks for

Regions == 1..NRegions
Cells == 1..NCells
Times == 1..NTimes

\* ------------------------------------------------------- float arithmetic
NaN == <<0, 0>>
Inf == <<1, 0>>
Zero == <<0, 1>>
None == [none |-> TRUE]

Abs(n) == IF n < 0 THEN -n ELSE n

RECURSIVE GCD(_, _)
GCD(a, b) == IF b = 0 THEN a ELSE GCD(b, a % b)

Norm(n, d) ==
    IF d = 0 THEN (IF n = 0 THEN NaN ELSE Inf)
    ELSE IF d = 1 THEN <<n, 1>>
    ELSE LET g == GCD(Abs(n), d) IN <<n \div g, d \div g>>

IsNaN(x) == x[1] = 0 /\ x[2] = 0
Finite(x) == x[2] # 0

\* float product: NaN if an operand is NaN, and 0 * inf is NaN
FMul(x, y) ==
    IF Finite(x) /\ Finite(y) THEN Norm(x[1] * y[1], x[2] * y[2])
    ELSE IF IsNaN(x) \/ IsNaN(y) \/ x[1] = 0 \/ y[1] = 0 THEN NaN
    ELSE Inf

\* numpy true division of non-negative floats: 0/0 is nan, x/0 is inf
FDiv(x, y) ==
    IF Finite(x) /\ Finite(y) /\ y[1] > 0 THEN Norm(x[1] * y[2], x[2] * y[1])
    ELSE IF IsNaN(x) \/ IsNaN(y) THEN NaN
    ELSE IF Finite(x) /\ Finite(y) THEN (IF x[1] = 0 THEN NaN ELSE Inf)
    ELSE IF Finite(x) THEN Zero
    ELSE IF Finite(y) THEN Inf
    ELSE NaN

\* x > 0 on floats: a comparison with NaN is False
Positive(x) == x[2] > 0 /\ x[1] > 0

\* the value an int64 array holds after a float is assigned into it
\* (truncation toward zero)
IntCast(x) ==
    IF x[1] >= 0 THEN <<x[1] \div x[2], 1>> ELSE <<-((-x[1]) \div x[2]), 1>>

\* DataArray.where(cond): keep the value where cond, NaN elsewhere
Where(value, cond) == IF cond THEN value ELSE NaN

\* DataArray.sum of the values s[1..n] (skipna: NaN counts as 0; the sum of
\* an empty array is 0).  The fractions are added over a common denominator
\* and the total is reduced once.
RECURSIVE RawSum(_, _)
RawSum(s, n) ==
    IF n = 0 THEN Zero
    ELSE LET h == s[n]
             r == RawSum(s, n - 1)
         IN IF ~Finite(h) THEN (IF IsNaN(h) THEN r ELSE Inf)
            ELSE IF ~Finite(r) THEN Inf
            ELSE IF h[2] = r[2] THEN <<h[1] + r[1], h[2]>>
            ELSE <<h[1] * r[2] + r[1] * h[2], h[2] * r[2]>>

SumSeq(s, n) == LET r == RawSum(s, n) IN Norm(r[1], r[2])

\* ------------------------------------------------------------ the inputs
\* the (capacity, capacity factor series) a grid cell may carry
CellKinds ==
    << [capacity |-> <<2, 1>>, capfac |-> [t \in Times |-> Norm(t, 10)]],
       [capacity |-> <<1, 2>>, capfac |-> [t \in Times |-> Norm(t + 2, 10)]],
       [capacity |-> <<0, 1>>, capfac |-> [t \in Times |-> <<0, 1>>]],
       [capacity |-> <<2, 1>>,
        capfac |-> [t \in Times |-> IF t = 1 THEN NaN ELSE <<1, 2>>]] >>

NKinds == Len(CellKinds)

\* A grid is a list of cells, each with a kind and the region whose polygon
\* holds it.  The aggregators sum over cells, so one grid per permutation of
\* the cells is enough: cells are listed by non-decreasing code.
CellCodes == 1..(NKinds * NRegions)
KindOf(code) == CellKinds[((code - 1) % NKinds) + 1]
RegionOf(code) == ((code - 1) \div NKinds) + 1

Grids == {g \in [Cells -> CellCodes] : \A c \in 1..(NCells - 1) : g[c] <= g[c + 1]}

\* RE_rep_utils.rasterize_xr_ds: the gridded data plus the 0/1 rasters
\* variable over (cell, region_ids)
rasterize_xr_ds(g) ==
    [region_ids |-> [i \in 1..NRegions |-> i],
     rasters    |-> [r \in Regions |-> [c \in Cells |-> IF RegionOf(g[c]) = r THEN 1 ELSE 0]],
     capacity   |-> [c \in Cells |-> KindOf(g[c]).capacity],
     capfac     |-> [c \in Cells |-> KindOf(g[c]).capfac]]

\* ------------------------------------------------- the regional extractor
CellSeq == [i \in 1..NCells |-> i]

Range(s) == {s[i] : i \in DOMAIN s}

\* ds[capfac_var_name].where(ds.rasters == 1) for the selected region
capfac_in_region(ds, region) ==
    [c \in Cells |-> [t \in Times |->
        Where(ds.capfac[c][t], ds.rasters[region][c] = 1)]]

\* ds[capacity_var_name].where(ds.rasters == 1) for the selected region
capacity_in_region(ds, region) ==
    [c \in Cells |-> Where(ds.capacity[c], ds.rasters[region][c] = 1)]

\* regional_capfac_da.where(regional_capacity_da > 0)
capfac_where_positive(ds, region) ==
    LET capfac_da == capfac_in_region(ds, region)
        capacity_da == capacity_in_region(ds, region)
    IN [c \in Cells |-> [t \in Times |->
            Where(capfac_da[c][t], Positive(capacity_da[c]))]]

\* regional_capacity_da.where(regional_capacity_da > 0)
capacity_where_positive(ds, region) ==
    LET capacity_da == capacity_in_region(ds, region)
    IN [c \in Cells |-> Where(capacity_da[c], Positive(capacity_da[c]))]

\* regional_capfac_da.dropna(dim='x_y'): a cell goes when any of its time
\* steps is NaN.  An array is its x_y index (cells, in grid order) and data.
regional_capfac_da(ds, region) ==
    LET a == capfac_where_positive(ds, region)
        keep == SelectSeq(CellSeq, LAMBDA c : \A t \in Times : ~IsNaN(a[c][t]))
    IN [x_y |-> keep, data |-> [c \in Range(keep) |-> a[c]]]

\* regional_capacity_da.dropna(dim='x_y')
regional_capacity_da(ds, region) ==
    LET a == capacity_where_positive(ds, region)
        keep == SelectSeq(CellSeq, LAMBDA c : ~IsNaN(a[c]))
    IN [x_y |-> keep, data |-> [c \in Range(keep) |-> a[c]]]

\* regional_capacity_da * regional_capfac_da: xarray aligns the operands on
\* x_y with an inner join before it multiplies
regional_power_da(capacity_da, capfac_da) ==
    LET keep == SelectSeq(capacity_da.x_y, LAMBDA c : c \in Range(capfac_da.x_y))
    IN [x_y |-> keep,
        data |-> [c \in Range(keep) |-> [t \in Times |->
                    FMul(capacity_da.data[c], capfac_da.data[c][t])]]]

\* da.sum(dim='x_y') of a 1-d array and of one time step of a 2-d array
sum_x_y(x_y, data) == SumSeq([i \in 1..Len(x_y) |-> data[x_y[i]]], Len(x_y))
sum_x_y_at(x_y, data, t) == SumSeq([i \in 1..Len(x_y) |-> data[x_y[i]][t]], Len(x_y))

\* power_total / capacity_total
capfac_ratioNoDivide(power_total, capacity_total) == power_total
capfac_ratio(power_total, capacity_total) == FDiv(power_total, capacity_total)

\* ---------------------------------------------------- simple aggregation
\* The capacities container is xr.DataArray(0, ...): an int64 array, so the
\* float total is cast to an integer when it is assigned.
simply_aggregate_RE_technology(capacity_da, capfac_da, region) ==
    LET power_da == regional_power_da(capacity_da, capfac_da)
        capacity_total == sum_x_y(capacity_da.x_y, capacity_da.data)
    IN [region_ids |-> <<region>>,
        capacity |-> [r \in {region} |-> IntCast(capacity_total)],
        capfac |-> [r \in {region} |-> [t \in Times |->
            capfac_ratio(sum_x_y_at(power_da.x_y, power_da.data, t), capacity_total)]]]

\* --------------------------------------------------- cluster aggregation
Min(a, b) == IF a < b THEN a ELSE b

\* the label arrays that put n samples into exactly k non-empty clusters
Labelings(n, k) ==
    {l \in [1..n -> 0..(k - 1)] : \A j \in 0..(k - 1) : \E p \in 1..n : l[p] = j}

\* AgglomerativeClustering(n_clusters).fit(X) on n_samples rows: the outcomes.
\* It raises ValueError for fewer than 2 samples and for more clusters than
\* samples; otherwise labels_ names every cluster 0..n_clusters-1.
fitUnguarded(n_samples, n_clusters) ==
    {[raised |-> FALSE, labels_ |-> l] :
        l \in Labelings(n_samples, Min(n_samples, n_clusters))}
fit(n_samples, n_clusters) ==
    IF n_samples < 2 \/ n_clusters > n_samples
    THEN {[raised |-> TRUE, labels_ |-> <<>>]}
    ELSE {[raised |-> FALSE, labels_ |-> l] : l \in Labelings(n_samples, n_clusters)}

\* np.unique(labels_).shape[0]
n_uniqueOffByOne(labels_) == Cardinality(Range(labels_)) - 1
n_unique(labels_) == Cardinality(Range(labels_))

\* da[labels_ == i]: the x_y index left by a boolean mask of the same length
mask_select(x_y, labels_, i) ==
    LET pos == SelectSeq([p \in 1..Len(x_y) |-> p], LAMBDA p : labels_[p] = i)
    IN [p \in 1..Len(pos) |-> x_y[pos[p]]]

\* regional_capacity_da[labels_ == i] raises IndexError when the mask and the
\* array differ in length
mask_raises(capacity_da, labels_) == Len(capacity_da.x_y) # Len(labels_)

\* The aggregation loop.  The containers are np.zeros (float): a TS_id the
\* loop does not reach keeps 0.
cluster_RE_technology(capacity_da, power_da, region, n_timeSeries, labels_) ==
    LET n_labels == n_unique(labels_)
        cluster_capacity_total(i) ==
            sum_x_y(mask_select(capacity_da.x_y, labels_, i), capacity_da.data)
        cluster_power_total(i, t) ==
            sum_x_y_at(mask_select(power_da.x_y, labels_, i), power_da.data, t)
    IN [region_ids |-> <<region>>,
        capacity |-> [r \in {region} |-> [i \in 0..(n_timeSeries - 1) |->
            IF i < n_labels THEN cluster_capacity_total(i) ELSE Zero]],
        capfac |-> [r \in {region} |-> [i \in 0..(n_timeSeries - 1) |->
            IF i < n_labels
            THEN LET capacity_total == cluster_capacity_total(i)
                 IN [t \in Times |-> capfac_ratio(cluster_power_total(i, t), capacity_total)]
            ELSE [t \in Times |-> Zero]]]]

\* ---------------------------------------------------------------- merge
RECURSIVE SortedSeq(_)
SortedSeq(S) ==
    IF S = {} THEN <<>>
    ELSE LET m == CHOOSE x \in S : \A y \in S : x <= y
         IN <<m>> \o SortedSeq(S \ {m})

\* xr.merge aligns its objects with join='outer': the union of the indexes
join_indexInner(a, b) == SortedSeq(Range(a) \cap Range(b))
join_index(a, b) == SortedSeq(Range(a) \cup Range(b))

empty_dataset == [region_ids |-> <<>>, capacity |-> <<>>, capfac |-> <<>>]

merge_two(a, b) ==
    LET idx == join_index(a.region_ids, b.region_ids)
        pick(x, y, r) == IF r \in DOMAIN x THEN x[r] ELSE y[r]
    IN [region_ids |-> idx,
        capacity |-> [r \in Range(idx) |-> pick(a.capacity, b.capacity, r)],
        capfac |-> [r \in Range(idx) |-> pick(a.capfac, b.capfac, r)]]

RECURSIVE xr_merge(_)
xr_merge(objects) ==
    IF objects = <<>> THEN empty_dataset
    ELSE IF Len(objects) = 1 THEN objects[1]
    ELSE merge_two(xr_merge(SubSeq(objects, 1, Len(objects) - 1)),
                   objects[Len(objects)])

\* ------------------------------------------------------------- the state
VARIABLES
    rasterized_RE_ds,        \* the rasterized dataset, read-only once built
    n_timeSeries_perRegion,  \* 1: simple aggregation, more: clustering
    pc,                      \* where represent_RE_technology stands
    futures,                 \* the regions whose task was submitted, in order
    status,                  \* the state of each region's future
    regional,                \* the x_y index of each task's two filtered arrays
    agglomerative_model,     \* the fitted clustering (labels_) of each finished task
    fragment,                \* each finished task's regional dataset
    results,                 \* the list client.gather returned
    represented_RE_ds        \* the merged dataset that is returned

vars == <<rasterized_RE_ds, n_timeSeries_perRegion, pc, futures, status,
          regional, agglomerative_model, fragment, results, represented_RE_ds>>

region_ids == rasterized_RE_ds.region_ids

Init ==
    /\ \E g \in Grids : rasterized_RE_ds = rasterize_xr_ds(g)
    /\ n_timeSeries_perRegion \in {1, NTimeSeries}
    /\ pc = "submit"
    /\ futures = <<>>
    /\ status = [r \in Regions |-> "unsubmitted"]
    /\ regional = [r \in Regions |-> None]
    /\ agglomerative_model = [r \in Regions |-> None]
    /\ fragment = [r \in Regions |-> None]
    /\ results = <<>>
    /\ represented_RE_ds = None

\* one turn of the submit loop: client.submit(...); futures.append(future).
\* client.submit returns at once and the task may run in a worker while the
\* loop is still submitting the next regions.
Submit ==
    /\ pc = "submit"
    /\ LET region == region_ids[Len(futures) + 1] IN
        /\ futures' = Append(futures, region)
        /\ status' = [status EXCEPT ![region] = "pending"]
    /\ pc' = IF Len(futures) + 1 = Len(region_ids) THEN "gather" ELSE "submit"
    /\ UNCHANGED <<rasterized_RE_ds, n_timeSeries_perRegion, regional,
                   agglomerative_model, fragment, results, represented_RE_ds>>

\* STEP 2 and 2b of either aggregator: the two filtered arrays of the region
extract(ds, region) ==
    [capacity |-> regional_capacity_da(ds, region),
     capfac |-> regional_capfac_da(ds, region)]

\* the cells each of the two arrays holds, in order
x_y_of(reg) == [capacity |-> reg.capacity.x_y, capfac |-> reg.capfac.x_y]

\* The task of one region in simple mode, _simply_aggregate_RE_technology.
\* A task reads only the rasterized dataset and writes only its own result,
\* so it is one step; a future is "pending" until it is "finished" or "error".
SimpleTask(region) ==
    /\ pc \in {"submit", "gather"}
    /\ status[region] = "pending"
    /\ n_timeSeries_perRegion = 1
    /\ LET reg == extract(rasterized_RE_ds, region) IN
        /\ regional' = [regional EXCEPT ![region] = x_y_of(reg)]
        /\ fragment' = [fragment EXCEPT ![region] =
                simply_aggregate_RE_technology(reg.capacity, reg.capfac, region)]
    /\ status' = [status EXCEPT ![region] = "finished"]
    /\ UNCHANGED <<rasterized_RE_ds, n_timeSeries_perRegion, pc, futures,
                   agglomerative_model, results, represented_RE_ds>>

\* The task of one region in cluster mode, _cluster_RE_technology: the
\* filtering, then STEP 2d, agg_cluster.fit on the filtered capfac array,
\* then STEP 2e and 3, the aggregation loop.
ClusterTask(region) ==
    /\ pc \in {"submit", "gather"}
    /\ status[region] = "pending"
    /\ n_timeSeries_perRegion # 1
    /\ LET reg == extract(rasterized_RE_ds, region)
           power_da == regional_power_da(reg.capacity, reg.capfac)
       IN
        /\ regional' = [regional EXCEPT ![region] = x_y_of(reg)]
        /\ \E outcome \in fit(Len(reg.capfac.x_y), n_timeSeries_perRegion) :
            IF outcome.raised \/ mask_raises(reg.capacity, outcome.labels_)
            THEN \* the exception ends the task: its future is in error
                 /\ status' = [status EXCEPT ![region] = "error"]
                 /\ UNCHANGED <<agglomerative_model, fragment>>
            ELSE /\ status' = [status EXCEPT ![region] = "finished"]
                 /\ agglomerative_model' = [agglomerative_model EXCEPT ![region] =
                                                [labels_ |-> outcome.labels_]]
                 /\ fragment' = [fragment EXCEPT ![region] =
                        cluster_RE_technology(reg.capacity, power_da, region,
                                              n_timeSeries_perRegion, outcome.labels_)]
    /\ UNCHANGED <<rasterized_RE_ds, n_timeSeries_perRegion, pc, futures,
                   results, represented_RE_ds>>

\* client.gather(futures) with errors='raise': it waits until every future is
\* done or one has failed, raises the failure if there is one, and returns
\* the results of the finished futures in the order of `futures`
gather_raisesNever(st, futs) == FALSE
gather_raises(st, futs) == \E i \in 1..Len(futs) : st[futs[i]] = "error"

gather_readyAny(st, futs) ==
    \E i \in 1..Len(futs) : st[futs[i]] \in {"finished", "error"}
gather_ready(st, futs) ==
    \A i \in 1..Len(futs) : st[futs[i]] \in {"finished", "error"}

gather(st, frag, futs) ==
    LET done == SelectSeq(futs, LAMBDA r : st[r] = "finished")
    IN [i \in 1..Len(done) |-> frag[done[i]]]

GatherRaise ==
    /\ pc = "gather"
    /\ gather_raises(status, futures)
    /\ pc' = "raised"
    /\ UNCHANGED <<rasterized_RE_ds, n_timeSeries_perRegion, futures, status,
                   regional, agglomerative_model, fragment, results, represented_RE_ds>>

GatherReturn ==
    /\ pc = "gather"
    /\ ~gather_raises(status, futures)
    /\ gather_ready(status, futures)
    /\ results' = gather(status, fragment, futures)
    /\ pc' = "merge"
    /\ UNCHANGED <<rasterized_RE_ds, n_timeSeries_perRegion, futures, status,
                   regional, agglomerative_model, fragment, represented_RE_ds>>

\* represented_RE_ds = xr.merge(results); return represented_RE_ds
Merge ==
    /\ pc = "merge"
    /\ represented_RE_ds' = xr_merge(results)
    /\ pc' = "returned"
    /\ UNCHANGED <<rasterized_RE_ds, n_timeSeries_perRegion, futures, status,
                   regional, agglomerative_model, fragment, results>>

Next ==
    \/ Submit
    \/ \E region \in Regions : SimpleTask(region)
    \/ \E region \in Regions : ClusterTask(region)
    \/ GatherRaise
    \/ GatherReturn
    \/ Merge

Spec == Init /\ [][Next]_vars

\* ------------------------------------------------ what the claims refer to
\* the sum of f over a set of cells, and over the time series of a region
CellSum(S, f) ==
    LET x_y == SelectSeq(CellSeq, LAMBDA c : c \in S)
    IN SumSeq([i \in 1..Len(x_y) |-> f[x_y[i]]], Len(x_y))

ClusterSum(f) == SumSeq([i \in 1..n_timeSeries_perRegion |-> f[i - 1]], n_timeSeries_perRegion)

\* The filtered cells of a region: in the region, capacity > 0, no capacity
\* factor missing
FilteredCells(r) ==
    {c \in Cells : /\ rasterized_RE_ds.rasters[r][c] = 1
                   /\ Positive(rasterized_RE_ds.capacity[c])
                   /\ \A t \in Times : ~IsNaN(rasterized_RE_ds.capfac[c][t])}

\* the cells of a region with capacity > 0, whatever their capacity factor
PositiveCells(r) ==
    {c \in Cells : /\ rasterized_RE_ds.rasters[r][c] = 1
                   /\ Positive(rasterized_RE_ds.capacity[c])}

\* the capacity of a set of cells, and their power at time step t
CapacityOf(S) == CellSum(S, rasterized_RE_ds.capacity)

PowerOf(S, t) ==
    CellSum(S, [c \in Cells |-> FMul(rasterized_RE_ds.capacity[c],
                                     rasterized_RE_ds.capfac[c][t])])

TotalCapacity(r) == CapacityOf(FilteredCells(r))
TotalPower(r, t) == PowerOf(FilteredCells(r), t)

SimpleMode == n_timeSeries_perRegion = 1
TS_ids == 0..(n_timeSeries_perRegion - 1)
Terminal(r) == status[r] \in {"finished", "error"}

\* C1: when the call returns, the region_ids coordinate of the returned
\* dataset lists every region of the rasterized dataset exactly once, and both
\* variables are indexed by exactly these regions.
RegionCompleteness ==
    pc = "returned" =>
        /\ Range(represented_RE_ds.region_ids) = Range(region_ids)
        /\ Range(represented_RE_ds.region_ids) = Range(futures)
        /\ Len(represented_RE_ds.region_ids) = Cardinality(Range(region_ids))
        /\ DOMAIN represented_RE_ds.capacity = Range(region_ids)
        /\ DOMAIN represented_RE_ds.capfac = Range(region_ids)

\* a call in cluster mode has returned a dataset of more than one region
RegionCompletenessReached ==
    /\ pc = "returned"
    /\ ~SimpleMode
    /\ Len(represented_RE_ds.region_ids) > 1

\* C2: once the task of a region has failed, the call is never at the merge
\* step or returned, and there are no gathered results and no merged dataset.
FailureIsAtomic ==
    (\E r \in Regions : status[r] = "error") =>
        /\ pc \notin {"merge", "returned"}
        /\ results = <<>>
        /\ represented_RE_ds = None

\* the call has raised with one region failed and another one finished
FailureIsAtomicReached ==
    /\ pc = "raised"
    /\ \E r \in Regions : status[r] = "error"
    /\ \E r \in Regions : status[r] = "finished" /\ fragment[r] # None

\* C3: in simple mode the returned capacity of every region is the sum of the
\* capacities of its filtered cells.
SimpleCapacityConserved ==
    (pc = "returned" /\ SimpleMode) =>
        \A r \in Regions : represented_RE_ds.capacity[r] = TotalCapacity(r)

\* C4: in simple mode, for every region whose filtered capacity C is positive,
\* the returned capacity factor at every time step is the power of the
\* filtered cells divided by C.
SimpleWeightedMean ==
    (pc = "returned" /\ SimpleMode) =>
        \A r \in Regions : Positive(TotalCapacity(r)) =>
            \A t \in Times :
                represented_RE_ds.capfac[r][t] = FDiv(TotalPower(r, t), TotalCapacity(r))

\* C5: in cluster mode, the capacities of the clusters of a finished region
\* add up to the capacity of its filtered cells, in the task's fragment and in
\* the returned dataset.
ClusterCapacityConserved ==
    \A r \in Regions :
        /\ (~SimpleMode /\ status[r] = "finished") =>
              ClusterSum(fragment[r].capacity[r]) = TotalCapacity(r)
        /\ (~SimpleMode /\ pc = "returned") =>
              ClusterSum(represented_RE_ds.capacity[r]) = TotalCapacity(r)

\* a cluster task has finished with two cells of different capacity in one
\* cluster
ClusterCapacityConservedReached ==
    \E r \in Regions :
        /\ ~SimpleMode
        /\ status[r] = "finished"
        /\ \E p, q \in DOMAIN agglomerative_model[r].labels_ :
            /\ p # q
            /\ agglomerative_model[r].labels_[p] = agglomerative_model[r].labels_[q]
            /\ rasterized_RE_ds.capacity[regional[r].capacity[p]]
                 # rasterized_RE_ds.capacity[regional[r].capacity[q]]

\* C6: in cluster mode, at every time step, capacity times capacity factor
\* summed over the clusters of a finished region is the power of its filtered
\* cells.
ClusterPowerConserved ==
    \A r \in Regions :
        (~SimpleMode /\ status[r] = "finished") =>
            LET filtered == FilteredCells(r) IN
            \A t \in Times :
                ClusterSum([k \in TS_ids |->
                    FMul(fragment[r].capacity[r][k], fragment[r].capfac[r][k][t])])
                  = PowerOf(filtered, t)

\* a cluster task has finished with a cluster of total capacity other than 1
\* whose capacity factor is not constant
ClusterPowerConservedReached ==
    \E r \in Regions : \E k \in TS_ids :
        /\ ~SimpleMode
        /\ status[r] = "finished"
        /\ fragment[r].capacity[r][k] # <<1, 1>>
        /\ \E t, u \in Times : fragment[r].capfac[r][k][t] # fragment[r].capfac[r][k][u]

\* C7: in cluster mode a region with fewer filtered cells than the requested
\* cluster count never gets a label assignment or a fragment, its task can only
\* fail, the call does not return; and no returned dataset holds a cluster of
\* capacity 0 or with a NaN capacity factor.
ClusterCountRejected ==
    /\ \A r \in Regions :
        (~SimpleMode /\ n_timeSeries_perRegion > Cardinality(FilteredCells(r))) =>
            /\ status[r] \in {"unsubmitted", "pending", "error"}
            /\ agglomerative_model[r] = None
            /\ fragment[r] = None
            /\ pc # "returned"
    /\ (~SimpleMode /\ pc = "returned") =>
        \A r \in Regions : \A k \in TS_ids :
            /\ represented_RE_ds.capacity[r][k] # Zero
            /\ \A t \in Times : ~IsNaN(represented_RE_ds.capfac[r][k][t])

\* the task of a region with a filtered cell, but fewer than requested clusters,
\* has failed
ClusterCountRejectedReached ==
    \E r \in Regions :
        /\ ~SimpleMode
        /\ FilteredCells(r) # {}
        /\ n_timeSeries_perRegion > Cardinality(FilteredCells(r))
        /\ status[r] = "error"

\* C8: the call does not return a dataset when a region has no cell with
\* rasters == 1 and capacity > 0.
EmptyRegionSurfaced ==
    pc = "returned" => \A r \in Regions : PositiveCells(r) # {}

\* What the task of region r computes from the rasterized dataset (and, in
\* cluster mode, from the labels its clustering returned)
TaskResult(r) ==
    LET reg == extract(rasterized_RE_ds, r)
    IN IF SimpleMode
       THEN simply_aggregate_RE_technology(reg.capacity, reg.capfac, r)
       ELSE cluster_RE_technology(reg.capacity,
                                  regional_power_da(reg.capacity, reg.capfac), r,
                                  n_timeSeries_perRegion, agglomerative_model[r].labels_)

\* C9: the merge happens only when every task is finished, and the returned
\* dataset holds for every region the values its task computes from the
\* rasterized dataset, whatever the order the tasks ran in.
OrderIndependent ==
    /\ pc \in {"merge", "returned"} => \A r \in Regions : status[r] = "finished"
    /\ pc = "merge" => Len(results) = Len(futures)
    /\ pc = "returned" =>
        \A r \in Regions :
            /\ r \in DOMAIN represented_RE_ds.capacity
            /\ represented_RE_ds.capacity[r] = TaskResult(r).capacity[r]
            /\ represented_RE_ds.capfac[r] = TaskResult(r).capfac[r]

\* a call has returned a dataset in which two regions differ in capacity and
\* in capacity factor
OrderIndependentReached ==
    /\ pc = "returned"
    /\ \E r, q \in Regions :
        /\ represented_RE_ds.capacity[r] # represented_RE_ds.capacity[q]
        /\ represented_RE_ds.capfac[r] # represented_RE_ds.capfac[q]

\* C10: once a task has filtered its region, the capacity array and the
\* capacity-factor array hold the same cells in the same order.
FilteredInLockstep ==
    \A r \in Regions :
        Terminal(r) => regional[r].capfac = regional[r].capacity

====
